---- MODULE Spec2Model ----
(***************************************************************************)
(* EcoGuide backend: the progress-recording flow                           *)
(* PUT /api/usuarios/:id/progreso of the three server files                *)
(* (src/server/index.js, src/unnamed/part_002, src/unnamed/part_003) over  *)
(* the PostgreSQL tables usuarios / historial / residuos and the MongoDB   *)
(* collection of LogPartida documents.                                     *)
(*                                                                         *)
(* Every `await pool.query(...)` is a point where other requests run, so   *)
(* a handler is one action per awaited query.  The code that follows the   *)
(* last await (the LogPartida save that is not awaited, and res.json) runs *)
(* in the same turn of the event loop and belongs to the last action.      *)
(* The body's puntos and co2_evitado are used by the UPDATE only: the model *)
(* draws them in the action of the UPDATE.                                 *)
(***************************************************************************)
EXTENDS Integers, Sequences, FiniteSets, TLC

\* ------------------------------------------------------------------ bounds
MaxUsers == 2
MaxReqs == 2
MaxPuntos == 1
MaxCo2 == 1
NumResiduos == 1

\* ------------------------------------------------------- values and inputs
\* A JSON value bound to a numeric column: a number, or a value the column's
\* type refuses ("abc", an integer out of range), which makes the statement
\* fail.
Num(n) == [t |-> "num", v |-> n]
Bad == [t |-> "bad", v |-> 0]

UserIds == 1..MaxUsers
ReqIds == 1..MaxReqs
Residuos == 1..NumResiduos
\* puntos of a body: an integer from -1 on, or a value that is no integer.
PuntosIn == {Num(n) : n \in (0 - 1)..MaxPuntos} \cup {Bad}
\* co2_evitado of a body, counted in whole units of the real column.
Co2In == {Num(n) : n \in 1..MaxCo2}
\* residuo_id of a body: an existing item, or NumResiduos + 1, which is none.
ResiduoIn == 1..(NumResiduos + 1)
\* fue_acierto of a body: a JSON boolean, or the field is missing.
AciertoIn == {"true", "false", "undefined"}
\* The Authorization header: missing, a token jwt.verify refuses, a token
\* jwt.verify accepts (it decodes to { id: caller }).
Tokens == {"none", "bad", "ok"}
Builds == {"index", "part_002", "part_003"}

VARIABLES build, usuarios, nextId, historial, logPartidas, req, client

vars == <<build, usuarios, nextId, historial, logPartidas, req, client>>

\* An answer: res.status(status).json({ success, error }); a field that the
\* object does not have is "absent".
Answer(status, success, error) ==
    [status |-> status, success |-> success, error |-> error]

NoAnswer == Answer(0, "absent", "absent")

\* A request slot.  pc: where the handler is; id, token, caller: what the
\* route read of the request; residuo_id, fue_acierto, puntos, co2_evitado:
\* the body fields the handler has used so far; res: the answer sent; row:
\* the historial row the INSERT created (0: none); updated: the UPDATE
\* ran; mirror: the LogPartida save; saves: the number of save() calls made
\* for the request; route: the route that received it; response: the row the
\* stored procedure returned; began: the number of historial rows when the
\* procedure call was sent; nombre, email, password: the body the perfil,
\* register or login handler read.
NoResponse == [exito |-> "none"]

IdleReq == [pc |-> "idle", route |-> "none", id |-> 0,
            token |-> "none", caller |-> 0,
            residuo_id |-> 0, fue_acierto |-> "undefined",
            puntos |-> Num(0), co2_evitado |-> Num(0),
            res |-> NoAnswer, row |-> 0, updated |-> FALSE, mirror |-> "none",
            saves |-> 0, response |-> NoResponse, began |-> 0,
            nombre |-> "", email |-> 0, password |-> [clave |-> 0]]

\* The browser: no page of the client is open.
NoClient == [view |-> "none"]

Init ==
    /\ build \in Builds
    /\ usuarios = <<>>
    /\ nextId = 1
    /\ historial = <<>>
    /\ logPartidas = {}
    /\ req = [r \in ReqIds |-> IdleReq]
    /\ client = NoClient

\* ------------------------------------------------------ the primary store
\* Foreign keys of historial (usuario_id -> usuarios, residuo_id -> residuos).
FkOk(usuario_id, residuo_id) ==
    /\ usuario_id \in DOMAIN usuarios
    /\ residuo_id \in Residuos

\* The outcomes of storing the value in a column whose NOT NULL declaration
\* is not part of the sources: a non-null value is accepted, NULL is accepted
\* or refused (error 23502).
NullOutcomes(isNull) == IF isNull THEN {TRUE, FALSE} ELSE {TRUE}

\* INSERT INTO historial (usuario_id, residuo_id, acierto, fecha) VALUES (...)
InsertHistorialOk(usuario_id, residuo_id, accepted) ==
    /\ FkOk(usuario_id, residuo_id)
    /\ accepted

\* usuarios.puntos is an integer column and usuarios.co2_evitado a real
\* column: each stores any number of its type and refuses other values.
ColumnStores(value) == value.t = "num"

\* UPDATE usuarios SET puntos = $1, co2_evitado = $2 WHERE id = $3: the
\* statement fails when a parameter cannot be stored in its column.
UpdateUsuarioOk(puntos, co2_evitado) ==
    ColumnStores(puntos) /\ ColumnStores(co2_evitado)

\* (mutant) the parameters are bound in the order residuo_id, usuario_id.
HistorialRowSwapped(usuario_id, residuo_id, acierto) ==
    [usuario_id |-> residuo_id, residuo_id |-> usuario_id, acierto |-> acierto]

HistorialRow(usuario_id, residuo_id, acierto) ==
    [usuario_id |-> usuario_id, residuo_id |-> residuo_id, acierto |-> acierto]

\* (mutant) SET puntos = puntos + $1
SetPuntosAdding(old, puntos) == Num(old.v + puntos.v)

\* The value the UPDATE stores in a column that held `old`.
SetPuntos(old, puntos) == puntos

SetCo2(old, co2_evitado) == co2_evitado

\* (mutant) the UPDATE has no WHERE clause.
UpdateUsuarioAll(tabla, id, puntos, co2_evitado) ==
    [u \in DOMAIN tabla |->
       [tabla[u] EXCEPT !.puntos = SetPuntos(@, puntos),
                        !.co2_evitado = SetCo2(@, co2_evitado)]]

\* The table after the UPDATE: the row WHERE id = $3, when there is one.
UpdateUsuario(tabla, id, puntos, co2_evitado) ==
    IF id \in DOMAIN tabla
    THEN [tabla EXCEPT ![id].puntos = SetPuntos(@, puntos),
                       ![id].co2_evitado = SetCo2(@, co2_evitado)]
    ELSE tabla

\* ------------------------------------------------------------- middleware
\* (mutant) a request without the header is let through.
VerificarTokenOptional(token) ==
    IF token = "bad" THEN Answer(403, "absent", "Token invalido")
    ELSE NoAnswer

\* verificarToken: 401 without header, 403 when jwt.verify throws, else
\* next() (NoAnswer: the handler runs).
VerificarToken(token) ==
    IF token = "none" THEN Answer(401, "absent", "Token requerido")
    ELSE IF token = "bad" THEN Answer(403, "absent", "Token invalido")
    ELSE NoAnswer

\* The progreso route is registered with verificarToken only in part_003.
ProgresoGuarded == build = "part_003"

\* The answer of the middleware chain of the progreso route.
ProgresoPre(token) == IF ProgresoGuarded THEN VerificarToken(token) ELSE NoAnswer

\* -------------------------------------------------------------- the handler
\* The catch block: 500, with success: false in part_002 only.
ProgresoCatch ==
    Answer(500, IF build = "part_002" THEN "false" ELSE "absent",
           "Error al guardar progreso")

\* (mutant) the answer is left to the continuation of the save.
ProgresoOkAwaited == NoAnswer

\* res.json({ success: true })
ProgresoOk == Answer(200, "true", "absent")

\* (mutant) the rejection of the query is swallowed, the handler goes on.
PcAfterQuerySwallowed(ok, next) == next

\* Where the handler goes after an awaited query: on, or to the catch block.
PcAfterQuery(ok, next) == IF ok THEN next ELSE "done"

\* ------------------------------------------------------- the mirror write
PuntosAcierto == 10

\* (mutant) every attempt is logged with the reward of a correct one.
PuntosObtenidosSiempre(fue_acierto) == PuntosAcierto

\* puntos_obtenidos: fue_acierto ? 10 : 0 (undefined is falsy).
PuntosObtenidos(fue_acierto) == IF fue_acierto = "true" THEN PuntosAcierto ELSE 0

\* (mutant) the document is built with es_correcto: true.
LogPartidaCorrecto(r, id, residuo_id, fue_acierto) ==
    [req |-> r, usuario_id |-> id, residuo_id |-> residuo_id,
     es_correcto |-> "true",
     puntos_obtenidos |-> PuntosObtenidos(fue_acierto)]

\* new LogPartida({ usuario_id, residuo_id, es_correcto, puntos_obtenidos }):
\* parseInt (part_002) and the Number cast of the schema give the id the
\* INSERT stored.
LogPartida(r, id, residuo_id, fue_acierto) ==
    [req |-> r, usuario_id |-> id, residuo_id |-> residuo_id,
     es_correcto |-> fue_acierto,
     puntos_obtenidos |-> PuntosObtenidos(fue_acierto)]

\* (mutant) the failure of the save reaches the catch block of the handler.
MirrorCatchAnswers(res) == Answer(500, "absent", "Error al guardar progreso")

\* What the .catch handler of the save does to the request's answer: it
\* only logs, the answer that was sent stays as it is.
MirrorCatch(res) == res

\* (mutant) the .catch handler saves the document again.
SavesAfterCatchRetry(saves) == saves + 1

\* The save() calls made for a request once the .catch handler has run: it
\* logs the error and makes no further call.
SavesAfterCatch(saves) == saves

\* ---------------------------------------------------------------- passwords
\* The password the k-th user registers with.
Clave(k) == [clave |-> k]

\* A body without password.
NoClave == [clave |-> 0]

PasswordIn == {NoClave} \cup {Clave(k) : k \in 1..MaxUsers}

\* bcrypt.hash(password, 10): what is stored is not the password.
Hash(password) == [hash |-> password]

\* (mutant) every password is accepted.
CompareAny(password, hash) == TRUE

\* bcrypt.compare(password, hash)
Compare(password, hash) == hash = Hash(password)

\* ---------------------------------------------------------------- actions
\* POST /api/auth/register, the successful INSERT: a new row, with the next
\* value of the id sequence, the nombre and the email of the body, puntos 0
\* and co2_evitado 0.  Email k is the address the k-th user registers with
\* (no other user holds it: the column is unique), Clave(k) the password.
Register ==
    /\ nextId <= MaxUsers
    /\ \A u \in DOMAIN usuarios : usuarios[u].email # nextId
    /\ usuarios' = [u \in DOMAIN usuarios \cup {nextId} |->
                      IF u = nextId
                      THEN [nombre |-> "Ana", email |-> nextId,
                            password |-> Hash(Clave(nextId)),
                            puntos |-> Num(0), co2_evitado |-> Num(0)]
                      ELSE usuarios[u]]
    /\ nextId' = nextId + 1
    /\ UNCHANGED <<client, build, historial, logPartidas, req>>

\* A request arrives in a free slot.  The middleware of the route runs; when
\* it answers, the handler does not run and nothing else of the request is
\* read.  Otherwise the handler runs up to its first await: the INSERT with
\* id, residuo_id and fue_acierto is sent.  A token that verifies was signed
\* by the login route for a registered user (caller < nextId); a route
\* without the middleware never reads the header.
ProgresoStart(r, id, token, caller, residuo_id, fue_acierto) ==
    /\ req[r].pc = "idle"
    /\ IF token = "ok" THEN caller \in 1..(nextId - 1) ELSE caller = 0
    /\ LET pre == ProgresoPre(token) IN
       req' = [req EXCEPT ![r] =
                 IF pre # NoAnswer
                 THEN [IdleReq EXCEPT !.pc = "done", !.res = pre,
                                      !.route = "progreso",
                                      !.token = token]
                 ELSE [IdleReq EXCEPT !.pc = "insert", !.id = id,
                                      !.route = "progreso",
                                      !.token = IF ProgresoGuarded THEN token
                                                ELSE "none",
                                      !.caller = IF ProgresoGuarded THEN caller
                                                 ELSE 0,
                                      !.residuo_id = residuo_id,
                                      !.fue_acierto = fue_acierto]]
    /\ UNCHANGED <<client, build, usuarios, nextId, historial, logPartidas>>

\* The INSERT runs; a failure rejects the await and the catch answers 500.
ProgresoInsert(r) ==
    /\ req[r].pc = "insert"
    /\ LET q == req[r] IN
       \E accepted \in NullOutcomes(q.fue_acierto = "undefined") :
          LET ok == InsertHistorialOk(q.id, q.residuo_id, accepted) IN
          /\ historial' = IF ok
                           THEN Append(historial,
                                  HistorialRow(q.id, q.residuo_id, q.fue_acierto))
                           ELSE historial
          /\ req' = [req EXCEPT
                       ![r].pc = PcAfterQuery(ok, "update"),
                       ![r].row = IF ok THEN Len(historial) + 1 ELSE 0,
                       ![r].res = IF PcAfterQuery(ok, "update") = "done"
                                  THEN ProgresoCatch ELSE NoAnswer]
    /\ UNCHANGED <<client, build, usuarios, nextId, logPartidas>>

\* The UPDATE with the body's puntos and co2_evitado runs; on success the
\* save is dispatched (not awaited) and { success: true } is sent; a failure
\* is answered 500 by the catch.
ProgresoUpdate(r, puntos, co2_evitado) ==
    /\ req[r].pc = "update"
    /\ LET q == req[r]
           ok == UpdateUsuarioOk(puntos, co2_evitado)
           sent == PcAfterQuery(ok, "mirror") = "mirror" IN
       /\ usuarios' = IF ok
                       THEN UpdateUsuario(usuarios, q.id, puntos, co2_evitado)
                       ELSE usuarios
       /\ req' = [req EXCEPT
                    ![r].pc = "done",
                    ![r].puntos = puntos,
                    ![r].co2_evitado = co2_evitado,
                    ![r].updated = ok,
                    ![r].mirror = IF sent THEN "pending" ELSE "none",
                    ![r].saves = IF sent THEN 1 ELSE 0,
                    ![r].res = IF sent THEN ProgresoOk ELSE ProgresoCatch]
    /\ UNCHANGED <<client, build, nextId, historial, logPartidas>>

\* The save resolves: the document is in the collection.
MirrorSaved(r) ==
    /\ req[r].mirror = "pending"
    /\ logPartidas' = logPartidas \cup
          {LogPartida(r, req[r].id, req[r].residuo_id, req[r].fue_acierto)}
    /\ req' = [req EXCEPT ![r].mirror = "saved"]
    /\ UNCHANGED <<client, build, usuarios, nextId, historial>>

\* The save rejects (MongoDB unreachable, buffering timed out): .catch logs.
MirrorFailed(r) ==
    /\ req[r].mirror = "pending"
    /\ req' = [req EXCEPT ![r].mirror = "failed",
                          ![r].saves = SavesAfterCatch(@),
                          ![r].res = MirrorCatch(@)]
    /\ UNCHANGED <<client, build, usuarios, nextId, historial, logPartidas>>

Next ==
    \/ Register
    \/ \E r \in ReqIds, id \in UserIds, t \in Tokens, c \in 0..MaxUsers,
          res \in ResiduoIn, a \in AciertoIn :
          ProgresoStart(r, id, t, c, res, a)
    \/ \E r \in ReqIds, p \in PuntosIn, c \in Co2In : ProgresoUpdate(r, p, c)
    \/ \E r \in ReqIds : ProgresoInsert(r)
    \/ \E r \in ReqIds : MirrorSaved(r)
    \/ \E r \in ReqIds : MirrorFailed(r)

Spec == Init /\ [][Next]_vars

\* ------------------------------- POST /api/clasificacion/registrar (part_002)
\* The route exists in part_002 only.
RegistrarRoute == build = "part_002"

\* Body values: 0 stands for a missing or falsy usuario_id / residuo_id.
UsuarioIn == 0..MaxUsers

ResiduoBodyIn == 0..(NumResiduos + 1)

\* (mutant) the presence check tests fue_acierto for truthiness.
RegistrarFaltaTruthy(usuario_id, residuo_id, fue_acierto) ==
    usuario_id = 0 \/ residuo_id = 0 \/ fue_acierto # "true"

\* !usuario_id || !residuo_id || fue_acierto === undefined
RegistrarFalta(usuario_id, residuo_id, fue_acierto) ==
    usuario_id = 0 \/ residuo_id = 0 \/ fue_acierto = "undefined"

RegistrarFaltan ==
    Answer(400, "false", "Faltan parametros: usuario_id, residuo_id, fue_acierto")

RegistrarCatch == Answer(500, "false", "Error al registrar clasificacion")

\* sp_registrar_clasificacion: the reward of an attempt, +10 when correct.
SpPuntos(fue_acierto) == IF fue_acierto = "true" THEN PuntosAcierto ELSE 0

\* sp_registrar_clasificacion: the CO2 value looked up from the item, credited
\* for a correct attempt.
SpCo2(residuo_id, fue_acierto) == IF fue_acierto = "true" THEN residuo_id ELSE 0

\* sp_registrar_clasificacion: the rows of the user in historial (every row
\* of a run is of the current day).
ClasificacionesHoy(tabla, usuario_id) ==
    Cardinality({i \in 1..Len(tabla) : tabla[i].usuario_id = usuario_id})

\* sp_registrar_clasificacion($1, $2, $3), one atomic statement: it checks
\* that the user and the item exist, credits the reward, inserts the
\* historial row and returns the new aggregate and the count of the day.
SpRegistrarClasificacion(usuario_id, residuo_id, fue_acierto) ==
    IF ~FkOk(usuario_id, residuo_id)
    THEN [exito |-> "false", mensaje |-> "Usuario o residuo no encontrado",
          usuarios |-> usuarios, historial |-> historial]
    ELSE LET fila == HistorialRow(usuario_id, residuo_id, fue_acierto)
             puntos == Num(usuarios[usuario_id].puntos.v + SpPuntos(fue_acierto))
             co2 == Num(usuarios[usuario_id].co2_evitado.v
                          + SpCo2(residuo_id, fue_acierto))
             filas == Append(historial, fila) IN
         [exito |-> "true", mensaje |-> "Clasificacion registrada",
          nuevos_puntos |-> puntos, nuevo_co2 |-> co2,
          clasificaciones_hoy |-> ClasificacionesHoy(filas, usuario_id),
          usuarios |-> [usuarios EXCEPT ![usuario_id].puntos = puntos,
                                        ![usuario_id].co2_evitado = co2],
          historial |-> filas]

\* The row of the result the handler reads (result.rows[0]).
ResponseRow(sp) ==
    IF sp.exito = "true"
    THEN [exito |-> "true", mensaje |-> sp.mensaje,
          nuevos_puntos |-> sp.nuevos_puntos, nuevo_co2 |-> sp.nuevo_co2,
          clasificaciones_hoy |-> sp.clasificaciones_hoy]
    ELSE [exito |-> "false", mensaje |-> sp.mensaje]

\* (mutant) the save is made whatever the procedure answered.
RegistrarSavesAlways(response) == 1

\* if (response.exito) new LogPartida({...}).save()
RegistrarSaves(response) == IF response.exito = "true" THEN 1 ELSE 0

\* The answer after the procedure returned: the success body with the
\* procedure's values, or 400 with the procedure's message.
RegistrarAnswer(response, fue_acierto) ==
    IF response.exito = "true"
    THEN [status |-> 200, success |-> "true", error |-> "absent",
          mensaje |-> response.mensaje,
          datos |-> [puntos |-> response.nuevos_puntos,
                     co2_evitado |-> response.nuevo_co2,
                     clasificaciones_hoy |-> response.clasificaciones_hoy]]
    ELSE Answer(400, "false", response.mensaje)

\* The request arrives; the presence check answers 400 or the procedure is
\* called.  The check stops at the first operand that holds: what it has not
\* read is not recorded.
RegistrarStart(r, usuario_id, residuo_id, fue_acierto) ==
    /\ RegistrarRoute
    /\ req[r].pc = "idle"
    /\ usuario_id = 0 => residuo_id = 0
    /\ residuo_id = 0 => fue_acierto = "undefined"
    /\ req' = [req EXCEPT ![r] =
                 [IdleReq EXCEPT
                    !.pc = IF RegistrarFalta(usuario_id, residuo_id, fue_acierto)
                           THEN "done" ELSE "sp",
                    !.route = "registrar",
                    !.id = usuario_id,
                    !.residuo_id = residuo_id,
                    !.fue_acierto = fue_acierto,
                    !.began = IF RegistrarFalta(usuario_id, residuo_id, fue_acierto)
                              THEN 0 ELSE Len(historial),
                    !.res = IF RegistrarFalta(usuario_id, residuo_id, fue_acierto)
                            THEN RegistrarFaltan ELSE NoAnswer]]
    /\ UNCHANGED <<client, build, usuarios, nextId, historial, logPartidas>>

\* The procedure runs and the handler resumes with its row: the mirror save is
\* dispatched (not awaited) and the answer is sent.  A query that rejects
\* (connection lost) is answered 500 by the catch block.
RegistrarCall(r, rejects) ==
    /\ req[r].pc = "sp"
    /\ LET q == req[r]
           sp == SpRegistrarClasificacion(q.id, q.residuo_id, q.fue_acierto)
           response == ResponseRow(sp) IN
       IF rejects
       THEN /\ req' = [req EXCEPT ![r].pc = "done", ![r].res = RegistrarCatch]
            /\ UNCHANGED <<usuarios, historial>>
       ELSE /\ usuarios' = sp.usuarios
            /\ historial' = sp.historial
            /\ req' = [req EXCEPT
                         ![r].pc = "done",
                         ![r].response = response,
                         ![r].row = IF sp.exito = "true"
                                    THEN Len(sp.historial) ELSE 0,
                         ![r].updated = sp.exito = "true",
                         ![r].saves = RegistrarSaves(response),
                         ![r].mirror = IF RegistrarSaves(response) > 0
                                       THEN "pending" ELSE "none",
                         ![r].res = RegistrarAnswer(response, q.fue_acierto)]
    /\ UNCHANGED <<client, build, nextId, logPartidas>>

NextRegistrar ==
    \/ Next
    \/ \E r \in ReqIds, u \in UsuarioIn, res \in ResiduoBodyIn, a \in AciertoIn :
          RegistrarStart(r, u, res, a)
    \/ \E r \in ReqIds, rejects \in BOOLEAN : RegistrarCall(r, rejects)

\* The server with both progress-recording routes.
SpecRegistrar == Init /\ [][NextRegistrar]_vars

\* ------------------------------------- stats-hoy, perfil, delete, health
\* The :id of the path; 0 stands for a segment that is not an integer.
PathIdIn == 0..MaxUsers

NombreIn == {"", "Eva"}

\* The email of the body; 0 stands for a missing or empty one.
EmailIn == 0..MaxUsers

\* The routes registered with verificarToken (part_003).
RouteGuarded(route) ==
    /\ build = "part_003"
    /\ route \in {"stats-hoy", "perfil", "delete", "progreso"}

\* The answer of the middleware chain of the route.
RoutePre(route, token) ==
    IF RouteGuarded(route) THEN VerificarToken(token) ELSE NoAnswer

\* The request the middleware answered: the handler has read nothing.
Rejected(route, token, pre) ==
    [IdleReq EXCEPT !.pc = "done", !.route = route, !.token = token,
                    !.res = pre]

\* The request of a handler that answers after its single query.
Answered(route, id, token, caller, res) ==
    [IdleReq EXCEPT !.pc = "done", !.route = route, !.id = id,
                    !.token = IF RouteGuarded(route) THEN token ELSE "none",
                    !.caller = IF RouteGuarded(route) THEN caller ELSE 0,
                    !.res = res]

\* err.message of the query that was given a parameter that is not an integer.
ErrMessage == "invalid input syntax for type integer"

\* err.message of the query that could not reach the database.
ErrConexion == "connect ECONNREFUSED"

\* The catch block of stats-hoy: 500 with err.message, success: false in
\* part_002 only.
StatsCatch ==
    Answer(500, IF build = "part_002" THEN "false" ELSE "absent", ErrMessage)

\* The answer of stats-hoy: the three subselects, each with || 0 (a user that
\* does not exist reads as 0).
StatsAnswer(id) ==
    IF id = 0 THEN StatsCatch
    ELSE [status |-> 200,
          success |-> IF build = "index" THEN "absent" ELSE "true",
          error |-> "absent",
          puntos_totales |-> IF id \in DOMAIN usuarios
                             THEN usuarios[id].puntos.v ELSE 0,
          co2_total |-> IF id \in DOMAIN usuarios
                        THEN usuarios[id].co2_evitado.v ELSE 0,
          count_hoy |-> ClasificacionesHoy(historial, id)]

\* GET /api/usuarios/:id/stats-hoy
StatsHoy(r, id, token, caller) ==
    /\ req[r].pc = "idle"
    /\ IF token = "ok" THEN caller \in 1..(nextId - 1) ELSE caller = 0
    /\ LET pre == RoutePre("stats-hoy", token) IN
       req' = [req EXCEPT ![r] =
                 IF pre # NoAnswer
                 THEN Rejected("stats-hoy", token, pre)
                 ELSE Answered("stats-hoy", id, token, caller, StatsAnswer(id))]
    /\ UNCHANGED <<client, build, usuarios, nextId, historial, logPartidas>>

\* usuarios.email is unique (error 23505): another row holds the address.
EmailTaken(email, id) ==
    \E u \in DOMAIN usuarios : u # id /\ usuarios[u].email = email

\* (mutant) the handler has no presence check.
PerfilAnswerUnchecked(id, nombre, email) ==
    IF id = 0
    THEN Answer(500, "absent", "Error actualizando perfil")
    ELSE IF id \notin DOMAIN usuarios
    THEN Answer(404, "absent", "Usuario no encontrado")
    ELSE IF EmailTaken(email, id)
    THEN Answer(500, "absent", "Error actualizando perfil")
    ELSE [status |-> 200, success |-> "absent", error |-> "absent",
          id |-> id, nombre |-> nombre, email |-> email]

\* The answer of the perfil handler: the presence check, then the UPDATE,
\* which rejects for an id that is not an integer, matches no row, or rejects
\* for an email another row holds.
PerfilAnswer(id, nombre, email) ==
    IF nombre = "" \/ email = 0
    THEN Answer(400, "absent", "Nombre y email son obligatorios")
    ELSE IF id = 0
    THEN Answer(500, "absent", "Error actualizando perfil")
    ELSE IF id \notin DOMAIN usuarios
    THEN Answer(404, "absent", "Usuario no encontrado")
    ELSE IF EmailTaken(email, id)
    THEN Answer(500, "absent", "Error actualizando perfil")
    ELSE [status |-> 200, success |-> "absent", error |-> "absent",
          id |-> id, nombre |-> nombre, email |-> email]

\* PUT /api/usuarios/:id/perfil (part_003): UPDATE usuarios SET nombre = $1,
\* email = $2 WHERE id = $3 RETURNING id, nombre, email
Perfil(r, id, token, caller, nombre, email) ==
    /\ build = "part_003"
    /\ req[r].pc = "idle"
    /\ IF token = "ok" THEN caller \in 1..(nextId - 1) ELSE caller = 0
    /\ LET pre == RoutePre("perfil", token)
           res == PerfilAnswer(id, nombre, email) IN
       IF pre # NoAnswer
       THEN /\ req' = [req EXCEPT ![r] = Rejected("perfil", token, pre)]
            /\ UNCHANGED usuarios
       ELSE /\ req' = [req EXCEPT ![r] =
                          [Answered("perfil", id, token, caller, res)
                             EXCEPT !.nombre = nombre, !.email = email]]
            /\ usuarios' = IF res.status = 200
                            THEN [usuarios EXCEPT ![id].nombre = nombre,
                                                  ![id].email = email]
                            ELSE usuarios
    /\ UNCHANGED <<client, build, nextId, historial, logPartidas>>

\* What the foreign key of historial does when a user with rows is deleted:
\* the rows go with the user, or the DELETE is refused (error 23503).
DeleteOutcomes(id) ==
    IF \E i \in 1..Len(historial) : historial[i].usuario_id = id
    THEN {"cascade", "restrict"} ELSE {"cascade"}

\* The place of a historial row that was deleted: its id is not used again.
Borrada == [usuario_id |-> 0, residuo_id |-> 0, acierto |-> "undefined"]

\* The answer of the delete handler.
DeleteAnswer(id, outcome) ==
    IF id = 0 \/ (id \in DOMAIN usuarios /\ outcome = "restrict")
    THEN Answer(500, "absent", "Error eliminando usuario")
    ELSE IF id \notin DOMAIN usuarios
    THEN Answer(404, "absent", "Usuario no encontrado")
    ELSE [status |-> 200, success |-> "absent", error |-> "absent",
          mensaje |-> "Usuario eliminado correctamente"]

\* DELETE /api/usuarios/:id (part_003): DELETE FROM usuarios WHERE id = $1
\* RETURNING *
Delete(r, id, token, caller) ==
    /\ build = "part_003"
    /\ req[r].pc = "idle"
    /\ IF token = "ok" THEN caller \in 1..(nextId - 1) ELSE caller = 0
    /\ LET pre == RoutePre("delete", token) IN
       IF pre # NoAnswer
       THEN /\ req' = [req EXCEPT ![r] = Rejected("delete", token, pre)]
            /\ UNCHANGED <<usuarios, historial>>
       ELSE \E outcome \in DeleteOutcomes(id) :
              LET res == DeleteAnswer(id, outcome) IN
              /\ req' = [req EXCEPT ![r] =
                           Answered("delete", id, token, caller, res)]
              /\ usuarios' = IF res.status = 200
                              THEN [u \in DOMAIN usuarios \ {id} |-> usuarios[u]]
                              ELSE usuarios
              /\ historial' = IF res.status = 200
                               THEN [i \in 1..Len(historial) |->
                                       IF historial[i].usuario_id = id
                                       THEN Borrada ELSE historial[i]]
                               ELSE historial
    /\ UNCHANGED <<client, build, nextId, logPartidas>>

\* The answer of the health check: ok, or 500 with err.message.
HealthAnswer(up) ==
    IF up THEN Answer(200, "true", "absent")
    ELSE Answer(500, "false", ErrConexion)

\* GET /api/health (part_002): SELECT NOW()
Health(r, up) ==
    /\ build = "part_002"
    /\ req[r].pc = "idle"
    /\ req' = [req EXCEPT ![r] = Answered("health", 0, "none", 0, HealthAnswer(up))]
    /\ UNCHANGED <<client, build, usuarios, nextId, historial, logPartidas>>

NextRutas ==
    \/ Next
    \/ \E r \in ReqIds, id \in PathIdIn, t \in Tokens, c \in 0..MaxUsers :
          StatsHoy(r, id, t, c)
    \/ \E r \in ReqIds, id \in PathIdIn, t \in Tokens, c \in 0..MaxUsers,
          n \in NombreIn, e \in EmailIn : Perfil(r, id, t, c, n, e)
    \/ \E r \in ReqIds, id \in PathIdIn, t \in Tokens, c \in 0..MaxUsers :
          Delete(r, id, t, c)
    \/ \E r \in ReqIds, up \in BOOLEAN : Health(r, up)

\* The server with its account routes.
SpecRutas == Init /\ [][NextRutas]_vars

\* ---------------------------------------- POST /api/auth/register, login
\* The catch block of register for the unique violation (err.code 23505).
RegisterDuplicate ==
    IF build = "index"
    THEN Answer(400, "absent", "El email ya existe.")
    ELSE Answer(400, "false", "El email ya esta registrado")

\* The catch block of register for every other error: index.js has a single
\* answer for all errors.
RegisterOther ==
    IF build = "index"
    THEN Answer(400, "absent", "El email ya existe.")
    ELSE Answer(500, "false", "Error al registrar usuario")

\* The answer of register for a body the INSERT accepts.
RegisterCreated(id, nombre, email) ==
    [status |-> 201, success |-> IF build = "part_002" THEN "true" ELSE "absent",
     error |-> "absent", id |-> id, nombre |-> nombre, email |-> email]

\* The answer of register: bcrypt.hash throws without a password; the INSERT
\* rejects for an email a row holds, or for a NULL the column refuses.
RegisterAnswer(nombre, email, password, accepted) ==
    IF password = NoClave THEN RegisterOther
    ELSE IF email # 0 /\ EmailTaken(email, 0) THEN RegisterDuplicate
    ELSE IF ~accepted THEN RegisterOther
    ELSE RegisterCreated(nextId, nombre, email)

\* POST /api/auth/register with a body.  The ids of the model count the rows
\* that were inserted.
RegisterReq(r, nombre, email, password) ==
    /\ nextId <= MaxUsers
    /\ req[r].pc = "idle"
    /\ \E accepted \in NullOutcomes(nombre = "" \/ email = 0) :
         LET res == RegisterAnswer(nombre, email, password, accepted) IN
         /\ req' = [req EXCEPT ![r] =
                      [IdleReq EXCEPT !.pc = "done", !.route = "register",
                                      !.nombre = nombre, !.email = email,
                                      !.password = password, !.res = res]]
         /\ usuarios' = IF res.status = 201
                         THEN [u \in DOMAIN usuarios \cup {nextId} |->
                                 IF u = nextId
                                 THEN [nombre |-> nombre, email |-> email,
                                       password |-> Hash(password),
                                       puntos |-> Num(0),
                                       co2_evitado |-> Num(0)]
                                 ELSE usuarios[u]]
                         ELSE usuarios
         /\ nextId' = IF res.status = 201 THEN nextId + 1 ELSE nextId
    /\ UNCHANGED <<client, build, historial, logPartidas>>

\* The rows SELECT * FROM usuarios WHERE email = $1 returns (none for NULL).
UsuariosConEmail(email) ==
    {u \in DOMAIN usuarios : email # 0 /\ usuarios[u].email = email}

\* jwt.sign({ id }, JWT_SECRET)
Token(id) == [id |-> id]

LoginCatch == Answer(500, "false", "Error en el servidor")

\* The answer of login: 404 without a row, 500 when bcrypt.compare throws
\* (no password), 401 when the password does not match, else the token.
LoginAnswer(email, password) ==
    IF UsuariosConEmail(email) = {}
    THEN Answer(404, IF build = "part_002" THEN "false" ELSE "absent",
                "Usuario no encontrado")
    ELSE LET u == CHOOSE x \in UsuariosConEmail(email) : TRUE IN
         IF password = NoClave
         THEN IF build = "index"
              THEN Answer(500, "absent", "Error en el servidor")
              ELSE LoginCatch
         ELSE IF ~Compare(password, usuarios[u].password)
         THEN Answer(401, IF build = "part_002" THEN "false" ELSE "absent",
                     "Credenciales invalidas")
         ELSE [status |-> 200,
               success |-> IF build = "part_002" THEN "true" ELSE "absent",
               error |-> "absent", token |-> Token(u),
               user |-> [id |-> u, nombre |-> usuarios[u].nombre,
                         puntos |-> usuarios[u].puntos,
                         co2_evitado |-> usuarios[u].co2_evitado]]

\* POST /api/auth/login
Login(r, email, password) ==
    /\ req[r].pc = "idle"
    /\ req' = [req EXCEPT ![r] =
                 [IdleReq EXCEPT !.pc = "done", !.route = "login",
                                 !.email = email, !.password = password,
                                 !.res = LoginAnswer(email, password)]]
    /\ UNCHANGED <<client, build, usuarios, nextId, historial, logPartidas>>

NextAuth ==
    \/ Register
    \/ \E r \in ReqIds, n \in NombreIn, e \in EmailIn, p \in PasswordIn :
          RegisterReq(r, n, e, p)
    \/ \E r \in ReqIds, e \in EmailIn, p \in PasswordIn : Login(r, e, p)

\* The server with its authentication routes.
SpecAuth == Init /\ [][NextAuth]_vars

\* ------------------------------------------- the client: validatePassword
\* The client talks to the server that has the account routes; no request
\* has been made and no page is open.
InitCliente ==
    /\ Init
    /\ build = "part_003"

\* The three copies of validatePassword.
PwVersions == {"Auth.js", "part_001:38", "part_001:485"}

\* The characters typed in the model.
Teclas == {"A", "a", "1", "!"}

MinLargo == 8

MaxLargo == 8

Mayusculas == {"A", "B", "Z"}

Minusculas == {"a", "b", "z"}

Numeros == {"0", "1", "9"}

\* [!@#$%^&*()_+\-=\[\]{};:\"\\|,.<>\/?]
Especiales ==
    {"!", "@", "#", "$", "%", "^", "&", "*", "(", ")", "_", "+", "-", "=",
     "[", "]", "{", "}", ";", ":", "\"", "\\", "|", ",", ".", "<", ">", "/",
     "?"}

\* The string has a character of the class: /[...]/.test(pw)
Test(clase, pw) == \E i \in 1..Len(pw) : pw[i] \in clase

\* The characters lit are in pw from position i.
SubAt(pw, i, lit) ==
    /\ i + Len(lit) - 1 <= Len(pw)
    /\ \A k \in 1..Len(lit) : pw[i + k - 1] = lit[k]

\* new RegExp("[!@#$%^&*()_+\\-=[]{};:\"|,.<>/?]") of part_001:490: the class
\* ends at the first ], so the pattern is the class [!@#$%^&*()_+\-=[]
\* followed by the characters {};:" or else , . < > /? ] in sequence.
TestRota(pw) ==
    \E i \in 1..Len(pw) :
        \/ /\ pw[i] \in {"!", "@", "#", "$", "%", "^", "&", "*", "(", ")",
                         "_", "+", "-", "=", "["}
           /\ SubAt(pw, i + 1, <<"{", "}", ";", ":", "\"">>)
        \/ /\ pw[i] = "," /\ i + 1 <= Len(pw)
           /\ \/ SubAt(pw, i + 2, <<"<", ">", "]">>)
              \/ SubAt(pw, i + 2, <<"<", ">", "/", "]">>)

\* The special-character test of the version.
TestEspecial(version, pw) ==
    IF version = "part_001:485" THEN TestRota(pw) ELSE Test(Especiales, pw)

MsgEspecial(version) ==
    IF version = "Auth.js"
    THEN "Incluye al menos un caracter especial (ej. !?@#)"
    ELSE "Incluye al menos un caracter especial"

\* validatePassword(pw) of the version
ValidatePassword(version, pw) ==
    IF Len(pw) < MinLargo
    THEN "La contrasena debe tener al menos 8 caracteres"
    ELSE IF ~Test(Mayusculas, pw) THEN "Incluye al menos una letra mayuscula"
    ELSE IF ~Test(Minusculas, pw) THEN "Incluye al menos una letra minuscula"
    ELSE IF ~Test(Numeros, pw) THEN "Incluye al menos un numero"
    ELSE IF ~TestEspecial(version, pw) THEN MsgEspecial(version)
    ELSE ""

\* Whether onChange validates the new value: in Auth.js once the field was
\* touched, in part_001 while an error is shown.
Revalida(c) ==
    IF c.version = "Auth.js" THEN c.touched ELSE c.pwdError # ""

\* onChange of the password field: a character is typed.
Teclea(tecla) ==
    /\ client.view = "clave"
    /\ Len(client.pw) < MaxLargo
    /\ LET pw == Append(client.pw, tecla) IN
       client' = [client EXCEPT
                    !.pw = pw,
                    !.pwdError = IF Revalida(client)
                                 THEN ValidatePassword(client.version, pw)
                                 ELSE @]
    /\ UNCHANGED <<build, usuarios, nextId, historial, logPartidas, req>>

\* onBlur of the password field.
Blur ==
    /\ client.view = "clave"
    /\ client' = [client EXCEPT
                    !.touched = TRUE,
                    !.pwdError = ValidatePassword(client.version, client.pw)]
    /\ UNCHANGED <<build, usuarios, nextId, historial, logPartidas, req>>

\* The page is opened.
AbreClave ==
    /\ client = NoClient
    /\ \E v \in PwVersions :
          client' = [view |-> "clave", version |-> v, pw |-> <<>>,
                     pwdError |-> "", touched |-> FALSE]
    /\ UNCHANGED <<build, usuarios, nextId, historial, logPartidas, req>>

NextClave ==
    \/ AbreClave
    \/ \E tecla \in Teclas : Teclea(tecla)
    \/ Blur

\* The password field of the client.
SpecClave == InitCliente /\ [][NextClave]_vars

\* ------------------------------------------ the client: Auth, EditProfile
AuthVersions == {"Auth.js", "part_000"}

EditVersions == {"EditProfile.js", "part_001:140", "part_001:609"}

\* What is typed in the name field: nothing, a blank, a name.
NombreTecleado == {"", " ", "Ana"}

\* String.prototype.trim() on the names of the model.
Trim(nombre) == IF nombre = " " THEN "" ELSE nombre

PwMala == <<"a", "b", "c">>

PwBuena == <<"A", "b", "c", "a", "b", "c", "1", "!">>

\* What the server answered, or the fetch rejected.
Respuestas == {"ok", "error", "network"}

NoStorage == [token |-> "none", user |-> "none"]

\* The Auth component is mounted: login mode, empty form, nothing stored.
\* sent: the request in flight; respuesta: the outcome of the last request;
\* confirm: the state of the delete confirmation; loggedIn: onLogin was called.
AbreAuth ==
    /\ client = NoClient
    /\ \E a \in AuthVersions, e \in EditVersions :
          client' = [view |-> "auth", auth |-> a, edit |-> e,
                     isRegister |-> FALSE, nombre |-> "", pw |-> <<>>,
                     error |-> "", pwdError |-> "", sent |-> "none",
                     respuesta |-> "none", storage |-> NoStorage,
                     loggedIn |-> FALSE, confirm |-> "none"]
    /\ UNCHANGED <<build, usuarios, nextId, historial, logPartidas, req>>

\* onClick of the switch: setIsRegister(!isRegister)
Alterna ==
    /\ client.view = "auth"
    /\ client' = [client EXCEPT !.isRegister = ~@]
    /\ UNCHANGED <<build, usuarios, nextId, historial, logPartidas, req>>

\* onChange of the name and password inputs.
Escribe(nombre, pw) ==
    /\ client.view = "auth"
    /\ client.sent = "none"
    /\ client' = [client EXCEPT !.nombre = nombre, !.pw = pw]
    /\ client' # client
    /\ UNCHANGED <<build, usuarios, nextId, historial, logPartidas, req>>

\* The inputs marked required are filled: the browser fires onSubmit.
RequiredFilled(c) == c.pw # <<>> /\ (c.isRegister => c.nombre # "")

\* What handleSubmit does before the fetch: "nombre" or "password" names the
\* check that returned, "fetch" that the request is sent.  part_000 has no
\* check.
SubmitCheck(c) ==
    IF c.auth = "Auth.js" /\ c.isRegister
    THEN IF Trim(c.nombre) = "" THEN "nombre"
         ELSE IF ValidatePassword("Auth.js", c.pw) # "" THEN "password"
         ELSE "fetch"
    ELSE "fetch"

Endpoint(c) == IF c.isRegister THEN "register" ELSE "login"

\* handleSubmit up to its first await.
Submit ==
    /\ client.view = "auth"
    /\ client.sent = "none"
    /\ RequiredFilled(client)
    /\ LET check == SubmitCheck(client) IN
       client' = [client EXCEPT
                    !.error = IF check = "nombre"
                              THEN "Por favor introduce tu nombre completo"
                              ELSE "",
                    !.pwdError = IF check = "password"
                                 THEN ValidatePassword("Auth.js", client.pw)
                                 ELSE "",
                    !.sent = IF check = "fetch" THEN Endpoint(client) ELSE "none"]
    /\ UNCHANGED <<build, usuarios, nextId, historial, logPartidas, req>>

\* handleSubmit after the fetch: the mode is the one of the submit.  A login
\* that succeeded stores token and user and calls onLogin; a registration
\* that succeeded switches to login mode; a failure sets the error.
Respuesta(outcome) ==
    /\ client.view = "auth"
    /\ client.sent \in {"register", "login"}
    /\ client' = [client EXCEPT
                    !.sent = "none",
                    !.respuesta = outcome,
                    !.storage = IF outcome = "ok" /\ client.sent = "login"
                                THEN [token |-> "set", user |-> "set"] ELSE @,
                    !.loggedIn = IF outcome = "ok" /\ client.sent = "login"
                                 THEN TRUE ELSE @,
                    !.isRegister = IF outcome = "ok" /\ client.sent = "register"
                                   THEN FALSE ELSE @,
                    !.error = IF outcome = "ok" THEN @ ELSE "Algo salio mal"]
    /\ UNCHANGED <<build, usuarios, nextId, historial, logPartidas, req>>

\* The logged-in user opens EditProfile: the component reads the token.
AbrePerfil ==
    /\ client.view = "auth"
    /\ client.loggedIn
    /\ client.sent = "none"
    /\ client' = [client EXCEPT !.view = "edit", !.error = "",
                                !.respuesta = "none"]
    /\ UNCHANGED <<build, usuarios, nextId, historial, logPartidas, req>>

\* Whether the version asks with window.confirm (EditProfile.js) or with the
\* modal (part_001).
UsesModal(c) == c.edit # "EditProfile.js"

\* onClick of the delete button: handleDelete.  EditProfile.js asks with
\* window.confirm and, when confirmed, sends the DELETE; part_001 shows the
\* modal.
ClickDelete(confirmacion) ==
    /\ client.view = "edit"
    /\ client.sent = "none"
    /\ client.confirm # "asked"
    /\ UsesModal(client) => confirmacion
    /\ client' = [client EXCEPT
                    !.confirm = IF UsesModal(client) THEN "asked"
                                ELSE IF confirmacion THEN "yes" ELSE "no",
                    !.sent = IF ~UsesModal(client) /\ confirmacion
                             THEN "delete" ELSE "none"]
    /\ UNCHANGED <<build, usuarios, nextId, historial, logPartidas, req>>

\* The modal's Cancelar: setShowDeleteModal(false)
CancelaModal ==
    /\ client.view = "edit"
    /\ client.confirm = "asked"
    /\ client' = [client EXCEPT !.confirm = "no"]
    /\ UNCHANGED <<build, usuarios, nextId, historial, logPartidas, req>>

\* The modal's Eliminar: handleConfirmDelete up to its await.
ConfirmDelete ==
    /\ client.view = "edit"
    /\ client.confirm = "asked"
    /\ client' = [client EXCEPT !.confirm = "yes", !.sent = "delete"]
    /\ UNCHANGED <<build, usuarios, nextId, historial, logPartidas, req>>

\* localStorage after the server confirmed the deletion: EditProfile.js
\* removes 'token', part_001 removes 'token' and 'user'.
StorageAfterDelete(c) ==
    IF UsesModal(c) THEN [token |-> "none", user |-> "none"]
    ELSE [c.storage EXCEPT !.token = "none"]

\* The delete handler after the fetch: on success the stored data is removed
\* and the app goes back to the landing page; a failure sets the error.
RespuestaDelete(outcome) ==
    /\ client.view = "edit"
    /\ client.sent = "delete"
    /\ client' = [client EXCEPT
                    !.sent = "none",
                    !.respuesta = outcome,
                    !.storage = IF outcome = "ok" THEN StorageAfterDelete(client)
                                ELSE @,
                    !.loggedIn = IF outcome = "ok" /\ UsesModal(client)
                                 THEN FALSE ELSE @,
                    !.view = IF outcome = "ok" THEN "landing" ELSE @,
                    !.error = IF outcome = "ok" THEN @
                              ELSE "Error eliminando cuenta"]
    /\ UNCHANGED <<build, usuarios, nextId, historial, logPartidas, req>>

NextCliente ==
    \/ AbreAuth
    \/ Alterna
    \/ \E n \in NombreTecleado, p \in {<<>>, PwMala, PwBuena} : Escribe(n, p)
    \/ Submit
    \/ \E o \in Respuestas : Respuesta(o)
    \/ AbrePerfil
    \/ \E c \in BOOLEAN : ClickDelete(c)
    \/ CancelaModal
    \/ ConfirmDelete
    \/ \E o \in Respuestas : RespuestaDelete(o)

\* The client: the Auth form and EditProfile.
SpecCliente == InitCliente /\ [][NextCliente]_vars

\* ------------------------------------------------------------------ claims
\* The handler of request r ran (the middleware let it through).
Handled(r) == req[r].pc # "idle" /\ req[r].id # 0

Finished(r) == req[r].pc = "done"

ClientError(status) == status \in 400..499

\* C1: after a request has finished, with success or with an error, its
\* historial row and its aggregate update are both applied or both not.
C1_InsertAndUpdateAtomic ==
    \A r \in ReqIds :
        Finished(r) => ((req[r].row # 0) <=> req[r].updated)

\* C2: a request whose :id differs from the id of the verified token is
\* answered with an authorization error, inserts no historial row and updates
\* no usuarios row.
C2_MismatchRejected ==
    \A r \in ReqIds :
        (Handled(r) /\ req[r].token = "ok" /\ req[r].caller # req[r].id) =>
            /\ req[r].row = 0
            /\ ~req[r].updated
            /\ Finished(r) => req[r].res.status \in {401, 403}

\* C3: when two requests for the same user overlap and both succeed, each has
\* inserted its own historial row and the user's puntos and co2_evitado are the
\* initial values (0 / 0 after registration, no other request has updated)
\* plus the amounts of both requests.  Stated for amounts > 0, on the step in
\* which r1, whose INSERT ran before the INSERT of r2, finishes after r2 has
\* finished.
C3_NoLostUpdate ==
    [][\A r1, r2 \in ReqIds :
          ( /\ r1 # r2
            /\ req[r1].pc = "update" /\ Finished(r1)'
            /\ req'[r1].res.status = 200
            /\ Finished(r2) /\ req[r2].res.status = 200
            /\ req[r1].id = req[r2].id
            /\ req[r1].row < req[r2].row
            /\ req'[r1].puntos.v > 0 /\ req[r2].puntos.v > 0
            /\ \A r3 \in ReqIds \ {r1, r2} : ~req[r3].updated )
          =>
          ( /\ req'[r1].row # 0 /\ req'[r2].row # 0
            /\ req'[r1].row # req'[r2].row
            /\ usuarios'[req[r1].id].puntos =
                  Num(0 + req'[r1].puntos.v + req'[r2].puntos.v)
            /\ usuarios'[req[r1].id].co2_evitado =
                  Num(0 + req'[r1].co2_evitado.v + req'[r2].co2_evitado.v) )
      ]_vars

\* C4: a request whose primary writes succeeded is answered 200
\* { success: true }, while the mirror write is pending, after it succeeded
\* and after it failed.
C4_MirrorInvisible ==
    \A r \in ReqIds :
        (Finished(r) /\ req[r].row # 0 /\ req[r].updated) =>
            /\ req[r].mirror \in {"pending", "saved", "failed"}
            /\ req[r].res = Answer(200, "true", "absent")

\* A request succeeded in its primary writes and its mirror write failed.
C4_Witness ==
    \E r \in ReqIds :
        req[r].updated /\ req[r].mirror = "failed" /\ req[r].res.status = 200

\* The step in which request r is answered with success.
Succeeds(r) == req[r].pc = "update" /\ Finished(r)' /\ req'[r].res.status = 200

C6_NonDecreasing ==
    [][\A u \in DOMAIN usuarios :
          u \in DOMAIN usuarios' =>
              /\ usuarios'[u].puntos.v >= usuarios[u].puntos.v
              /\ usuarios'[u].co2_evitado.v >= usuarios[u].co2_evitado.v
      ]_vars

\* C7: every user's puntos is an integer >= 0 and co2_evitado is a number
\* >= 0.
C7_NonNegative ==
    \A u \in DOMAIN usuarios :
        /\ usuarios[u].puntos.t = "num" /\ usuarios[u].puntos.v >= 0
        /\ usuarios[u].co2_evitado.t = "num" /\ usuarios[u].co2_evitado.v >= 0

\* C8: a request whose residuo_id names no existing item fails, adds no
\* historial row and does not update the user's aggregate.
C8_UnknownItemNoMutation ==
    \A r \in ReqIds :
        (Handled(r) /\ req[r].residuo_id \notin Residuos) =>
            /\ req[r].row = 0
            /\ ~req[r].updated
            /\ req[r].mirror = "none"
            /\ \A i \in 1..Len(historial) :
                  historial[i].residuo_id \in Residuos
            /\ Finished(r) => req[r].res.status # 200

\* A request with an unknown residuo_id has been answered.
C8_Witness ==
    \E r \in ReqIds :
        /\ Handled(r) /\ Finished(r)
        /\ req[r].residuo_id \notin Residuos
        /\ req[r].res.status = 500

\* C9: a request that violates the foreign key on the item is answered with
\* a 4xx status, never 5xx.
C9_FkViolationIs4xx ==
    \A r \in ReqIds :
        (Handled(r) /\ Finished(r) /\ req[r].residuo_id \notin Residuos) =>
            ClientError(req[r].res.status)

\* C10: a request without fue_acierto is answered with a 4xx validation
\* error, creates no historial row and leaves the aggregate unchanged.
C10_MissingAciertoRejected ==
    \A r \in ReqIds :
        (Handled(r) /\ req[r].fue_acierto = "undefined") =>
            /\ req[r].row = 0
            /\ ~req[r].updated
            /\ Finished(r) => ClientError(req[r].res.status)

\* A request of one of the two progress-recording routes.
Records(r) == req[r].route \in {"progreso", "registrar"}

\* The documents of request r in the collection.
Docs(r) == {d \in logPartidas : d.req = r}

\* C11: a PUT progreso that was answered with success has inserted exactly
\* one historial row, with the user, the item and the correctness of the
\* request; no step of the route changes or removes a row that exists.
C11_HistorialAppendOnly ==
    [][/\ Len(historial') >= Len(historial)
       /\ \A i \in 1..Len(historial) : historial'[i] = historial[i]
       /\ Len(historial') = Cardinality({r \in ReqIds : req'[r].row # 0})
       /\ \A r \in ReqIds :
             (req'[r].route = "progreso" /\ req'[r].res.status = 200) =>
                 /\ req'[r].row \in 1..Len(historial')
                 /\ \A r2 \in ReqIds \ {r} : req'[r2].row # req'[r].row
                 /\ historial'[req'[r].row] =
                       [usuario_id |-> req'[r].id,
                        residuo_id |-> req'[r].residuo_id,
                        acierto |-> req'[r].fue_acierto]
      ]_vars

\* Two requests of user 2 were answered with success and historial holds
\* their two rows.
C11_Witness ==
    /\ Len(historial) = 2
    /\ \A r \in ReqIds :
          /\ req[r].route = "progreso" /\ req[r].res.status = 200
          /\ req[r].id = 2
          /\ historial[req[r].row].usuario_id = 2

\* C12: the save of the mirror document is made only after the INSERT and
\* the UPDATE of the same request have succeeded: a request whose INSERT or
\* UPDATE failed has made no save, a request answered with success has made
\* exactly one.
C12_MirrorAfterPrimary ==
    \A r \in ReqIds :
        req[r].route = "progreso" =>
            /\ req[r].saves > 0 => (req[r].row # 0 /\ req[r].updated)
            /\ (Finished(r) /\ (req[r].row = 0 \/ ~req[r].updated)) =>
                  (req[r].saves = 0 /\ req[r].mirror = "none" /\ Docs(r) = {})
            /\ req[r].res.status = 200 =>
                  (req[r].saves = 1 /\ req[r].mirror # "none")
            /\ Cardinality(Docs(r)) <= 1

\* One request failed in its UPDATE and made no save, another succeeded and
\* its document is in the collection.
C12_Witness ==
    \E r1, r2 \in ReqIds :
        /\ req[r1].route = "progreso" /\ Finished(r1)
        /\ req[r1].row # 0 /\ ~req[r1].updated /\ req[r1].saves = 0
        /\ req[r2].route = "progreso" /\ req[r2].res.status = 200
        /\ req[r2].saves = 1 /\ Docs(r2) # {}

\* C13: the success answer of a progress-recording request is sent in the
\* step that completes its primary writes and dispatches the save: while the
\* save is pending, and whether it then succeeds or fails, the request is
\* finished and answered 200 with success true.
C13_AnswerDoesNotWait ==
    \A r \in ReqIds :
        (Records(r) /\ req[r].row # 0 /\ req[r].updated) =>
            /\ Finished(r)
            /\ req[r].mirror \in {"pending", "saved", "failed"}
            /\ req[r].res.status = 200 /\ req[r].res.success = "true"

\* A registrar request is answered while its save is pending, and a progreso
\* request is answered and its save has failed.
C13_Witness ==
    \E r1, r2 \in ReqIds :
        /\ req[r1].route = "registrar" /\ req[r1].mirror = "pending"
        /\ req[r1].res.status = 200
        /\ req[r2].route = "progreso" /\ req[r2].mirror = "failed"
        /\ req[r2].res.status = 200

\* C14: a progress-recording request makes at most one save; once the save
\* has failed nothing of the request changes any more: no further save, no
\* document, and the answer stays the success answer.
C14_MirrorFailureTerminal ==
    [][\A r \in ReqIds :
          /\ req'[r].saves <= 1
          /\ req'[r].mirror = "failed" =>
                (Docs(r)' = {} /\ req'[r].res.status = 200)
          /\ req[r].mirror = "failed" => req'[r] = req[r]
      ]_vars

\* The saves of a progreso request and of a registrar request have failed.
C14_Witness ==
    \E r1, r2 \in ReqIds :
        /\ req[r1].route = "progreso" /\ req[r1].mirror = "failed"
        /\ req[r2].route = "registrar" /\ req[r2].mirror = "failed"
        /\ logPartidas = {}

\* C15: every document of the collection has puntos_obtenidos 10 when the
\* fue_acierto of its request is true and 0 when it is false, whatever
\* puntos the request applied.
C15_PuntosObtenidos ==
    \A d \in logPartidas :
        /\ req[d.req].fue_acierto = "true" => d.puntos_obtenidos = 10
        /\ req[d.req].fue_acierto = "false" => d.puntos_obtenidos = 0

\* A correct attempt that applied puntos -1 is logged with 10, and a wrong
\* attempt that applied puntos 1 is logged with 0.
C15_Witness ==
    \E d1, d2 \in logPartidas :
        /\ req[d1.req].fue_acierto = "true" /\ req[d1.req].puntos = Num(0 - 1)
        /\ d1.puntos_obtenidos = 10
        /\ req[d2.req].fue_acierto = "false" /\ req[d2.req].puntos = Num(1)
        /\ d2.puntos_obtenidos = 0

\* Request r1 and request r2 are registrar submissions of the same
\* classification, and the procedure call of r1 ran while r2 was in flight.
DuplicatePair(r1, r2) ==
    /\ r1 # r2
    /\ req[r1].route = "registrar" /\ req[r2].route = "registrar"
    /\ req[r1].id = req[r2].id
    /\ req[r1].residuo_id = req[r2].residuo_id
    /\ req[r1].fue_acierto = req[r2].fue_acierto
    /\ req[r1].row > req[r2].began
    /\ req[r2].pc = "sp" \/ req[r2].row > req[r1].row

\* C16: of two concurrent registrar submissions of the same classification
\* at most one is applied: historial gets one row and the reward is credited
\* once.
C16_DuplicateAppliedOnce ==
    \A r1, r2 \in ReqIds :
        (DuplicatePair(r1, r2) /\ req[r1].row # 0) => req[r2].row = 0

\* C17: the answer of a registrar request follows the procedure's exito: when
\* true, 200 with success true, the procedure's mensaje, nuevos_puntos,
\* nuevo_co2 and clasificaciones_hoy, and one save; when false, 400 with
\* success false and the procedure's mensaje, and no save.
C17_FollowsExito ==
    \A r \in ReqIds :
        req[r].route = "registrar" =>
            /\ req[r].response.exito = "true" =>
                  /\ req[r].res.status = 200 /\ req[r].res.success = "true"
                  /\ req[r].res.mensaje = req[r].response.mensaje
                  /\ req[r].res.datos.puntos = req[r].response.nuevos_puntos
                  /\ req[r].res.datos.co2_evitado = req[r].response.nuevo_co2
                  /\ req[r].res.datos.clasificaciones_hoy =
                        req[r].response.clasificaciones_hoy
                  /\ req[r].saves = 1 /\ req[r].mirror # "none"
            /\ req[r].response.exito = "false" =>
                  /\ req[r].res.status = 400 /\ req[r].res.success = "false"
                  /\ req[r].res.error = req[r].response.mensaje
                  /\ req[r].saves = 0 /\ req[r].mirror = "none"
                  /\ Docs(r) = {}

\* One request was refused by the procedure and answered 400, another was
\* accepted, answered with the new aggregate, and its document is saved.
C17_Witness ==
    \E r1, r2 \in ReqIds :
        /\ req[r1].route = "registrar" /\ req[r1].response.exito = "false"
        /\ req[r1].res.status = 400
        /\ req[r2].route = "registrar" /\ req[r2].response.exito = "true"
        /\ req[r2].res.datos.puntos = Num(10)
        /\ Docs(r2) # {}

\* C18: on a route registered with verificarToken (stats-hoy, perfil, delete,
\* progreso) a request without the Authorization header is answered 401 and a
\* request whose token does not verify 403; the handler does not run: the
\* step that receives the request changes no table and no collection, the
\* request has read no id, made no query and no save, and nothing of it
\* changes afterwards.
C18_TokenRequired ==
    [][\A r \in ReqIds :
          (RouteGuarded(req'[r].route) /\ req'[r].token # "ok") =>
              /\ req'[r].token = "none" => req'[r].res.status = 401
              /\ req'[r].token = "bad" => req'[r].res.status = 403
              /\ Finished(r)'
              /\ req'[r].id = 0 /\ req'[r].row = 0 /\ ~req'[r].updated
              /\ req'[r].saves = 0 /\ req'[r].mirror = "none"
              /\ Docs(r)' = {}
              /\ req'[r] # req[r] =>
                    ( /\ req[r].pc = "idle"
                      /\ UNCHANGED <<usuarios, historial, logPartidas>> )
      ]_vars

\* A delete without header was answered 401 and a perfil with a token that
\* does not verify 403, and the user they name is as registered.
C18_Witness ==
    \E r1, r2 \in ReqIds :
        /\ req[r1].route = "delete" /\ req[r1].res.status = 401
        /\ req[r2].route = "perfil" /\ req[r2].res.status = 403
        /\ 1 \in DOMAIN usuarios /\ usuarios[1].nombre = "Ana"

\* The messages the handlers and the middleware write in their answers.
HandlerMessages ==
    {"Token requerido", "Token invalido", "Error al guardar progreso",
     "Nombre y email son obligatorios", "Error actualizando perfil",
     "Usuario no encontrado", "Error eliminando usuario"}

\* C19: every answer that reports a failure carries a message chosen by the
\* handler, never the text of the exception that was caught.
C19_NoExceptionText ==
    \A r \in ReqIds :
        req[r].res.status >= 400 =>
            /\ req[r].res.error \in HandlerMessages
            /\ req[r].res.error \notin {ErrMessage, ErrConexion}

\* C20: a registrar request whose usuario_id or residuo_id is missing or
\* falsy, or whose fue_acierto is undefined, is answered 400 without calling
\* the procedure and without a save; a request with both ids and fue_acierto
\* false is not refused by the check: the procedure is called.
C20_PresenceCheck ==
    \A r \in ReqIds :
        req[r].route = "registrar" =>
            /\ ( \/ req[r].id = 0 \/ req[r].residuo_id = 0
                 \/ req[r].fue_acierto = "undefined" ) =>
                  /\ Finished(r) /\ req[r].res.status = 400
                  /\ req[r].response = NoResponse
                  /\ req[r].row = 0 /\ ~req[r].updated
                  /\ req[r].saves = 0 /\ Docs(r) = {}
            /\ ( /\ req[r].id # 0 /\ req[r].residuo_id # 0
                 /\ req[r].fue_acierto = "false" ) =>
                  \/ req[r].pc = "sp"
                  \/ req[r].response # NoResponse
                  \/ req[r].res = RegistrarCatch

\* A request without fue_acierto was refused, and a request with fue_acierto
\* false was accepted by the procedure.
C20_Witness ==
    \E r1, r2 \in ReqIds :
        /\ req[r1].route = "registrar" /\ req[r1].id # 0
        /\ req[r1].residuo_id # 0 /\ req[r1].fue_acierto = "undefined"
        /\ req[r1].res.status = 400
        /\ req[r2].route = "registrar" /\ req[r2].fue_acierto = "false"
        /\ req[r2].response.exito = "true"

\* C21: every document saved for a progress-recording request carries the
\* usuario_id, the residuo_id and the correctness of the historial row that
\* request wrote.
C21_MirrorMatchesRow ==
    \A d \in logPartidas :
        LET q == req[d.req] IN
        /\ q.row \in 1..Len(historial)
        /\ d.usuario_id = historial[q.row].usuario_id
        /\ d.residuo_id = historial[q.row].residuo_id
        /\ d.es_correcto = historial[q.row].acierto

\* The documents of a progreso request and of a registrar request, both wrong
\* attempts of user 2, are in the collection.
C21_Witness ==
    \E d1, d2 \in logPartidas :
        /\ req[d1.req].route = "progreso" /\ req[d2.req].route = "registrar"
        /\ d1.usuario_id = 2 /\ d1.es_correcto = "false"
        /\ d2.usuario_id = 2 /\ d2.es_correcto = "false"

\* C22: a PUT progreso is answered with success only if its INSERT succeeded
\* and its UPDATE ran on a usuarios row that exists; when the user is deleted
\* between the INSERT and the UPDATE, the request is not answered with success.
C22_SuccessNeedsUser ==
    [][\A r \in ReqIds :
          Succeeds(r) => (req[r].row # 0 /\ req[r].id \in DOMAIN usuarios)
      ]_vars

\* The step is a query of the progreso request r.
ProgresoStep(r) ==
    /\ req[r].route = "progreso"
    /\ req[r].pc \in {"insert", "update"}
    /\ req'[r] # req[r]

\* C23: a query of a PUT progreso for user A changes at most the puntos and
\* co2_evitado of user A and adds at most one historial row, of user A: the
\* rows of every other user, the nombre, email and password of A and every
\* historial row that exists are unchanged.
C23_ProgresoFrame ==
    [][\A r \in ReqIds :
          ProgresoStep(r) =>
              /\ DOMAIN usuarios' = DOMAIN usuarios
              /\ \A u \in DOMAIN usuarios :
                    /\ u # req[r].id => usuarios'[u] = usuarios[u]
                    /\ usuarios'[u].nombre = usuarios[u].nombre
                    /\ usuarios'[u].email = usuarios[u].email
                    /\ usuarios'[u].password = usuarios[u].password
              /\ \/ historial' = historial
                 \/ /\ Len(historial') = Len(historial) + 1
                    /\ \A i \in 1..Len(historial) : historial'[i] = historial[i]
                    /\ historial'[Len(historial')].usuario_id = req[r].id
      ]_vars

\* User 1, renamed by a perfil request, has puntos 1 after a progreso request
\* for user 1; user 2 is as registered.
C23_Witness ==
    \E r \in ReqIds :
        /\ req[r].route = "progreso" /\ req[r].res.status = 200
        /\ req[r].id = 1 /\ req[r].puntos = Num(1)
        /\ 2 \in DOMAIN usuarios /\ 1 \in DOMAIN usuarios
        /\ usuarios[1].nombre = "Eva" /\ usuarios[1].puntos = Num(1)
        /\ usuarios[2].puntos = Num(0) /\ usuarios[2].co2_evitado = Num(0)

\* The step in which the perfil handler runs for request r.
PerfilStep(r) ==
    /\ req[r].pc = "idle"
    /\ req'[r].route = "perfil"
    /\ req'[r].res.status \notin {401, 403}

\* C24: a PUT perfil changes no user's puntos or co2_evitado; without nombre
\* or email it answers 400 and writes nothing; for an (integer) id no user
\* has it answers 404; in every other case it changes at most the nombre and
\* the email of the user of the :id.
C24_PerfilFrame ==
    [][\A r \in ReqIds :
          PerfilStep(r) =>
              LET q == req'[r] IN
              /\ DOMAIN usuarios' = DOMAIN usuarios
              /\ historial' = historial
              /\ \A u \in DOMAIN usuarios :
                    /\ usuarios'[u].puntos = usuarios[u].puntos
                    /\ usuarios'[u].co2_evitado = usuarios[u].co2_evitado
                    /\ usuarios'[u].password = usuarios[u].password
                    /\ u # q.id => usuarios'[u] = usuarios[u]
              /\ (q.nombre = "" \/ q.email = 0) =>
                    (q.res.status = 400 /\ usuarios' = usuarios)
              /\ ( /\ q.nombre # "" /\ q.email # 0
                   /\ q.id # 0 /\ q.id \notin DOMAIN usuarios ) =>
                    q.res.status = 404
              /\ q.res.status = 200 =>
                    /\ usuarios'[q.id].nombre = q.nombre
                    /\ usuarios'[q.id].email = q.email
      ]_vars

\* User 1 has puntos 1 from a progreso request and was renamed by a perfil
\* request.
C24_Witness ==
    \E r \in ReqIds :
        /\ req[r].route = "perfil" /\ req[r].res.status = 200
        /\ req[r].id = 1
        /\ 1 \in DOMAIN usuarios
        /\ usuarios[1].nombre = "Eva" /\ usuarios[1].puntos = Num(1)

\* C25: a PUT perfil or a DELETE of a caller with a verified token changes or
\* removes no usuarios row whose id differs from the id of the token.
C25_OwnAccountOnly ==
    [][\A r \in ReqIds :
          ( /\ req[r].pc = "idle"
            /\ req'[r].route \in {"perfil", "delete"}
            /\ req'[r].token = "ok" ) =>
              \A u \in DOMAIN usuarios :
                  u # req'[r].caller =>
                      (u \in DOMAIN usuarios' /\ usuarios'[u] = usuarios[u])
      ]_vars

\* The step in which the register handler answers request r.
RegisterStep(r) == req[r].pc = "idle" /\ req'[r].route = "register"

DuplicateMessages == {"El email ya existe.", "El email ya esta registrado"}

\* C26: register answers 400 with the email-already-registered message only
\* when a user holds the submitted email; every other failure has another
\* message; a successful registration answers 201 and creates the user with
\* puntos 0 and co2_evitado 0.
C26_RegisterErrors ==
    [][\A r \in ReqIds :
          RegisterStep(r) =>
              LET q == req'[r] IN
              /\ q.res.error \in DuplicateMessages =>
                    ( /\ q.res.status = 400
                      /\ \E u \in DOMAIN usuarios : usuarios[u].email = q.email )
              /\ q.res.error = "absent" =>
                    /\ q.res.status = 201
                    /\ q.res.id \in DOMAIN usuarios' \ DOMAIN usuarios
                    /\ usuarios'[q.res.id].puntos = Num(0)
                    /\ usuarios'[q.res.id].co2_evitado = Num(0)
                    /\ usuarios'[q.res.id].email = q.email
      ]_vars

\* The step in which the login handler answers request r.
LoginStep(r) == req[r].pc = "idle" /\ req'[r].route = "login"

\* C27: login answers with a token only when a user has the given email and
\* the password matches the stored hash, and the token carries the id of that
\* user; an email no user has is answered 404 and a password that does not
\* match 401, both without token.  (Email 0 is a body without email: it
\* is no user's email.)
C27_LoginToken ==
    [][\A r \in ReqIds :
          LoginStep(r) =>
              LET q == req'[r] IN
              /\ q.res.status = 200 =>
                    /\ q.res.token.id \in DOMAIN usuarios
                    /\ q.email # 0
                    /\ usuarios[q.res.token.id].email = q.email
                    /\ usuarios[q.res.token.id].password = Hash(q.password)
              /\ ( \/ q.email = 0
                   \/ \A u \in DOMAIN usuarios : usuarios[u].email # q.email ) =>
                    (q.res.status = 404 /\ DOMAIN q.res = DOMAIN NoAnswer)
              /\ ( /\ q.password # NoClave /\ q.email # 0
                   /\ \E u \in DOMAIN usuarios :
                         /\ usuarios[u].email = q.email
                         /\ usuarios[u].password # Hash(q.password) ) =>
                    (q.res.status = 401 /\ DOMAIN q.res = DOMAIN NoAnswer)
      ]_vars

\* A login with the password of another user was answered 401 and a login
\* with the user's own password got the token of user 2.
C27_Witness ==
    \E r1, r2 \in ReqIds :
        /\ req[r1].route = "login" /\ req[r1].res.status = 401
        /\ req[r2].route = "login" /\ req[r2].res.status = 200
        /\ req[r2].res.token = Token(2)

\* The listed special characters.
Listed ==
    {"!", "@", "#", "$", "%", "^", "&", "*", "(", ")", "_", "+", "-", "=",
     "[", "]", "{", "}", ";", ":", "\"", "\\", "|", ",", ".", "<", ">", "/",
     "?"}

\* What the claim says validatePassword(pw) returns.
Expected(pw) ==
    IF Len(pw) < 8 THEN {"La contrasena debe tener al menos 8 caracteres"}
    ELSE IF \A i \in 1..Len(pw) : pw[i] \notin {"A", "B", "Z"}
    THEN {"Incluye al menos una letra mayuscula"}
    ELSE IF \A i \in 1..Len(pw) : pw[i] \notin {"a", "b", "z"}
    THEN {"Incluye al menos una letra minuscula"}
    ELSE IF \A i \in 1..Len(pw) : pw[i] \notin {"0", "1", "9"}
    THEN {"Incluye al menos un numero"}
    ELSE IF \A i \in 1..Len(pw) : pw[i] \notin Listed
    THEN {"Incluye al menos un caracter especial",
          "Incluye al menos un caracter especial (ej. !?@#)"}
    ELSE {""}

\* C28: in every copy, validatePassword returns the empty string exactly for
\* a password of at least 8 characters with an uppercase letter, a lowercase
\* letter, a digit and a listed special character, and otherwise the message
\* of the first rule that fails, in the order length, uppercase, lowercase,
\* digit, special.  Stated on the steps that call it: onBlur, and onChange
\* when it validates.
C28_ValidatePassword ==
    [][(client.view = "clave" /\ client' # client) =>
          /\ client'.pw = client.pw => client'.pwdError \in Expected(client.pw)
          /\ (client'.pw # client.pw /\ Revalida(client)) =>
                client'.pwdError \in Expected(client'.pw)
      ]_vars

\* C29: in the Auth form a register request is sent only for a name that is
\* not blank and a password validatePassword accepts; token and user are
\* stored and onLogin is called only by the step that receives a successful
\* login response; a successful registration switches to login mode and
\* stores nothing.
C29_AuthForm ==
    [][client.view = "auth" =>
          /\ (client.sent = "none" /\ client'.sent = "register") =>
                /\ client.nombre \notin {"", " "}
                /\ "" \in Expected(client.pw)
          /\ (client'.storage # client.storage \/ client'.loggedIn # client.loggedIn) =>
                /\ client.sent = "login" /\ client'.respuesta = "ok"
                /\ client'.storage = [token |-> "set", user |-> "set"]
                /\ client'.loggedIn
          /\ (client.sent = "register" /\ client'.sent = "none"
                /\ client'.respuesta = "ok") =>
                /\ ~client'.isRegister
                /\ client'.storage = client.storage
      ]_vars

\* C30: in EditProfile the DELETE is sent only after the user confirmed; once
\* the server confirmed the deletion neither 'token' nor 'user' is in
\* localStorage; when the request fails localStorage is unchanged.
C30_DeleteAccount ==
    [][client.view = "edit" =>
          /\ (client.sent = "none" /\ client'.sent = "delete") =>
                client'.confirm = "yes"
          /\ (client.sent = "delete" /\ client'.respuesta = "ok") =>
                client'.storage = [token |-> "none", user |-> "none"]
          /\ (client.sent = "delete" /\ client'.respuesta \in {"error", "network"}) =>
                client'.storage = client.storage
      ]_vars

====
